---- MODULE Spec2Model ----
(***************************************************************************)
(* Subscription & billing engine of the broadband portal (src/app.py):    *)
(* the plan catalog, the subscription ledger and the proration            *)
(* calculator, as a state machine over the rows of the plans and          *)
(* subscriptions tables.                                                  *)
(*                                                                         *)
(* Dates are day numbers (datetime.utcnow().date()); a stored ISO date    *)
(* text is the day number it denotes.  Money returned by the calculator   *)
(* is counted in hundredths of the currency unit, so that round(x, 2) is  *)
(* a real rounding step; plan prices are whole currency units.            *)
(***************************************************************************)
EXTENDS Integers, Sequences, FiniteSets, TLC

\* ------------------------------------------------------------------ bounds
MaxDay == 2          \* the clock runs over days 0..MaxDay
MaxPlans == 1        \* rows of the plans table
MaxSubs == 3         \* rows of the subscriptions table
MaxTags == 1         \* times one plan is soft-deleted
MaxNotes == 2        \* rows of the notifications table
MaxReferrals == 2    \* rows of the referrals table
MaxSends == 1        \* sends to all

Users == {1, 2}                  \* customer ids the callers pass
PriceInputs == {0 - 1, 1}     \* prices the catalog callers pass
ValidityInputs == {1, 2}      \* validity_days the catalog callers pass
NameInputs == {<<>>, <<"Basic">>}  \* plan names: the empty text, one word
PlanIds == 1..(MaxPlans + 1)     \* plan ids the callers pass (one never exists)
CatalogValidityInputs == {0, 1}  \* validity_days the catalog management passes
SingleUser == {1}                \* one customer, where one is enough
PriceRange == {0, 1, 2, 3, 300, 600}          \* prices given to the calculator
ValidityRange == {0, 1, 2, 3, 8, 30}          \* validity_days given to the calculator
EndRange == 0..(MaxDay + 10)                  \* end dates given to the calculator
UsernameInputs == {"asha", "ravi"}            \* usernames the sign-up forms pass
RoleInputs == {"user"}                        \* the role the sign-up form passes
TitleInputs == {"Maintenance", "Offer"}       \* notification titles
MessageInputs == {"Tonight 1-3 am"}           \* notification messages
TypeInputs == {"general"}                     \* the type the send form passes
EmailInputs == {"friend@mail"}                \* referred e-mail addresses

VARIABLES
    today,   \* the date component of datetime.utcnow()
    plans,   \* the plans table: row id -> row (AUTOINCREMENT, never deleted)
    subs,    \* the subscriptions table: row id -> row
    last,    \* the last finished call: its arguments and what it returned
    req,     \* per browser session, the request it is in the middle of
    users,          \* the users table: row id -> row (AUTOINCREMENT, never deleted)
    notifications,  \* the notifications table: row id -> row
    referrals,      \* the referrals table: row id -> row
    payments,       \* the payments table: row id -> row
    broadcasts      \* history: per send to all, the customers then and the rows it made

vars == <<today, plans, subs, last, req, users, notifications, referrals, payments,
          broadcasts>>

\* The tables the subscription ledger's handlers do not touch, and the history
\* of the sends.
portal == <<users, notifications, referrals, payments, broadcasts>>

\* ------------------------------------------------------------------ values
NULL == 0 - 1                    \* SQL NULL in a date or text column
None == [none |-> TRUE]          \* Python None
ARCHIVED == "[ARCHIVED]"

\* f"[ARCHIVED] {name}": the tag is put in front of the name text.
ArchivedName(name) == <<ARCHIVED>> \o name

\* name LIKE '[ARCHIVED]%'
IsArchivedName(name) == Len(name) > 0 /\ name[1] = ARCHIVED

\* ------------------------------------------------------------------ exec_query
\* One statement, run on its own connection and committed on its own.  `ok`
\* is whether sqlite executed it: on an exception the write is not applied
\* and exec_query returns False (a fetch returns []).
exec_query(ok, before, after) == IF ok THEN after ELSE before

\* The statements of one handler all execute.
NoFault == [read_sub |-> TRUE, read_plan |-> TRUE, update |-> TRUE, insert |-> TRUE]

\* ------------------------------------------------------------------ plan catalog
\* A lookup that falls back to the first plan when the id is unknown.
get_plan_fallback(P, plan_id) ==
    IF P = <<>> THEN None
    ELSE LET id == IF plan_id \in DOMAIN P THEN plan_id ELSE 1
         IN  [id |-> id, name |-> P[id].name, price |-> P[id].price,
              validity_days |-> P[id].validity_days]

\* SELECT * FROM plans WHERE id = ?
get_plan(P, plan_id) ==
    IF plan_id \in DOMAIN P
        THEN [id |-> plan_id, name |-> P[plan_id].name, price |-> P[plan_id].price,
              validity_days |-> P[plan_id].validity_days]
        ELSE None

\* create_plan: (the table after the call, success flag, message)
create_plan(P, name, price, validity_days) ==
    IF name = <<>> \/ price < 0
        THEN [plans |-> P, ok |-> FALSE, msg |-> "Invalid plan details"]
        ELSE [plans |-> Append(P, [name |-> name, price |-> price,
                                    validity_days |-> validity_days]),
              ok |-> TRUE, msg |-> "Plan created successfully"]

\* ------------------------------------------------------------------ subscription ledger
ActiveOf(S, user_id) ==
    {i \in DOMAIN S : S[i].user_id = user_id /\ S[i].status = "active"}

\* The rows get_user_active_subscription may return: the active rows of the
\* customer with the greatest start_date (ORDER BY s.start_date DESC LIMIT 1
\* leaves the order among equal start dates to sqlite), each joined with its
\* plan's current price and validity; {None} when there is none.
get_user_active_subscription(S, P, user_id) ==
    LET act == {i \in ActiveOf(S, user_id) : S[i].plan_id \in DOMAIN P}
        top == {i \in act : \A j \in act : S[j].start_date <= S[i].start_date}
    IN  IF top = {} THEN {None}
        ELSE {[id |-> i, user_id |-> S[i].user_id, plan_id |-> S[i].plan_id,
               start_date |-> S[i].start_date, end_date |-> S[i].end_date,
               price |-> P[S[i].plan_id].price,
               validity_days |-> P[S[i].plan_id].validity_days] : i \in top}

\* The cancelling UPDATE without the customer in its WHERE clause.
CancelActiveOfUser_everyone(S, user_id) ==
    [i \in DOMAIN S |->
        IF S[i].status = "active" THEN [S[i] EXCEPT !.status = "cancelled"] ELSE S[i]]

\* The cancelling UPDATE with a WHERE clause that matches no row.
CancelActiveOfUser_none(S, user_id) == S

\* The cancelling UPDATE reaching only the oldest active row of the customer.
CancelActiveOfUser_first(S, user_id) ==
    [i \in DOMAIN S |->
        IF S[i].user_id = user_id /\ S[i].status = "active"
           /\ \A j \in DOMAIN S :
                 (S[j].user_id = user_id /\ S[j].status = "active") => i <= j
            THEN [S[i] EXCEPT !.status = "cancelled"]
            ELSE S[i]]

\* UPDATE subscriptions SET status = 'cancelled' WHERE user_id = ? AND status = 'active'
CancelActiveOfUser(S, user_id) ==
    [i \in DOMAIN S |->
        IF S[i].user_id = user_id /\ S[i].status = "active"
            THEN [S[i] EXCEPT !.status = "cancelled"]
            ELSE S[i]]

\* The UPDATE by id writing the schema's third status.
CancelById_expired(S, id, now) ==
    [i \in DOMAIN S |->
        IF i = id
            THEN [S[i] EXCEPT !.status = "expired", !.cancelled_date = now]
            ELSE S[i]]

\* The UPDATE by id setting the status alone.
CancelById_undated(S, id, now) ==
    [i \in DOMAIN S |->
        IF i = id THEN [S[i] EXCEPT !.status = "cancelled"] ELSE S[i]]

\* UPDATE subscriptions SET status = 'cancelled', cancelled_date = ? WHERE id = ?
CancelById(S, id, now) ==
    [i \in DOMAIN S |->
        IF i = id
            THEN [S[i] EXCEPT !.status = "cancelled", !.cancelled_date = now]
            ELSE S[i]]

\* The INSERT with the period starting on the day after the call.
InsertSubscription_dayafter(S, user_id, plan_id, start, end) ==
    Append(S, [user_id |-> user_id, plan_id |-> plan_id,
               start_date |-> start + 1, end_date |-> end, status |-> "active",
               auto_renew |-> 1, created_date |-> start, renewal_count |-> 0,
               cancelled_date |-> NULL, cancellation_reason |-> NULL])

\* INSERT INTO subscriptions (user_id, plan_id, start_date, end_date, status,
\*                            auto_renew, created_date, renewal_count)
InsertSubscription(S, user_id, plan_id, start, end) ==
    Append(S, [user_id |-> user_id, plan_id |-> plan_id,
               start_date |-> start, end_date |-> end, status |-> "active",
               auto_renew |-> 1, created_date |-> start, renewal_count |-> 0,
               cancelled_date |-> NULL, cancellation_reason |-> NULL])

\* subscribe_to_plan: the ledger after the call, the success flag and message.
\* The result of the cancelling UPDATE is not looked at.
subscribe_to_plan(S, P, now, user_id, plan_id, f) ==
    LET plan == IF f.read_plan THEN get_plan(P, plan_id) ELSE None IN
    IF plan = None
        THEN [subs |-> S, ok |-> FALSE, msg |-> "Plan not found"]
        ELSE
            LET S1 == exec_query(f.update, S, CancelActiveOfUser(S, user_id))
                end == now + plan.validity_days
                S2 == exec_query(f.insert, S1,
                                 InsertSubscription(S1, user_id, plan_id, now, end))
            IN  [subs |-> S2, ok |-> f.insert,
                 msg |-> IF f.insert THEN "Subscribed successfully"
                                     ELSE "Failed to subscribe"]

\* ------------------------------------------------------------------ proration calculator
\* Truncation to hundredths in place of rounding.
round2_floor(num, den) == {(100 * num) \div den}

\* round(x, 2) of x = num / den > 0 (den > 0), in hundredths.  Python rounds
\* the binary value of x to the nearest hundredth; when num / den lies
\* exactly half way between two hundredths the binary value may lie on
\* either side, so both neighbours are possible results.
round2(num, den) ==
    LET q == 100 * num
        lo == q \div den
        r == q % den
    IN  IF 2 * r < den THEN {lo}
        ELSE IF 2 * r > den THEN {lo + 1}
        ELSE {lo, lo + 1}

\* new_plan['price'], returned as it is
FullPrice(new_plan, text) ==
    {[amount |-> 100 * new_plan.price, text |-> text, n |-> 0]}

\* The test written as remaining_days < 0.
Expired_strict(remaining_days) == remaining_days < 0

\* if remaining_days <= 0: the current period has run out
Expired(remaining_days) == remaining_days <= 0

\* calculate_upgrade_price: the (amount, description) pairs the call may
\* return; amount in hundredths, description as its text and the number
\* formatted into it (the remaining days, or the credit in hundredths).
calculate_upgrade_price(current_sub, new_plan, now) ==
    IF current_sub = None
        THEN FullPrice(new_plan, "New subscription")
        ELSE
            LET remaining_days == current_sub.end_date - now IN
            IF Expired(remaining_days)
                THEN FullPrice(new_plan, "Current plan expired, full price")
            ELSE IF current_sub.validity_days = 0 \/ new_plan.validity_days = 0
                \* ZeroDivisionError, caught by the except clause
                THEN FullPrice(new_plan, "Error calculating - using full price")
            ELSE
                LET d == current_sub.validity_days * new_plan.validity_days
                    m == remaining_days *
                            (new_plan.price * current_sub.validity_days
                             - current_sub.price * new_plan.validity_days)
                    \* amount_to_pay = num / den with den > 0
                    den == IF d > 0 THEN d ELSE 0 - d
                    num == IF d > 0 THEN m ELSE 0 - m
                IN  IF num > 0
                        THEN {[amount |-> a, text |-> "Upgrade for days",
                               n |-> remaining_days] : a \in round2(num, den)}
                        ELSE {[amount |-> 0, text |-> "Downgrade - credit (refund not applicable)",
                               n |-> c] : c \in round2(0 - num, den)}

\* The new plan's validity added after the end of the current period.
UpgradeEnd_stacked(current_sub, new_plan, now) ==
    IF current_sub # None /\ current_sub.end_date - now > 0
        THEN current_sub.end_date + new_plan.validity_days
        ELSE now + new_plan.validity_days

\* The new row always given the new plan's full validity.
UpgradeEnd_fresh(current_sub, new_plan, now) == now + new_plan.validity_days

\* The end date upgrade_plan gives the new row: today plus the days left on
\* the current period when there are any, else today plus the new plan's
\* validity.
UpgradeEnd(current_sub, new_plan, now) ==
    IF current_sub # None /\ current_sub.end_date - now > 0
        THEN now + (current_sub.end_date - now)
        ELSE now + new_plan.validity_days

\* A change of plan written into the current row, with no new row.
upgrade_plan_inplace(S, P, now, user_id, new_plan_id, f) ==
    LET current_subs == IF f.read_sub
                            THEN get_user_active_subscription(S, P, user_id)
                            ELSE {None}
        new_plan == IF f.read_plan THEN get_plan(P, new_plan_id) ELSE None
    IN  {[subs |-> IF cur # None /\ new_plan # None
                       THEN exec_query(f.update, S,
                                [S EXCEPT ![cur.id].plan_id = new_plan_id])
                       ELSE S,
          ok |-> new_plan # None /\ f.update,
          msg |-> IF new_plan = None THEN "Plan not found" ELSE "Plan changed",
          amount |-> 0, n |-> 0, current_sub |-> cur, new_plan |-> new_plan]
         : cur \in current_subs}

\* upgrade_plan: the results the call may have (one per row the read of the
\* current subscription may return and per rounding of the amount): the
\* ledger after the call, the success flag, the message, and the current
\* subscription and quote it worked with.
upgrade_plan(S, P, now, user_id, new_plan_id, f) ==
    LET current_subs == IF f.read_sub
                            THEN get_user_active_subscription(S, P, user_id)
                            ELSE {None}
        new_plan == IF f.read_plan THEN get_plan(P, new_plan_id) ELSE None
    IN  IF new_plan = None
            THEN {[subs |-> S, ok |-> FALSE, msg |-> "Plan not found",
                   amount |-> 0, n |-> 0, current_sub |-> cur,
                   new_plan |-> None] : cur \in current_subs}
            ELSE UNION {
                {LET S1 == IF cur # None
                               THEN exec_query(f.update, S, CancelById(S, cur.id, now))
                               ELSE S
                     end == UpgradeEnd(cur, new_plan, now)
                     S2 == exec_query(f.insert, S1,
                               InsertSubscription(S1, user_id, new_plan_id, now, end))
                 IN  [subs |-> S2, ok |-> f.insert,
                      msg |-> IF f.insert THEN q.text ELSE "Failed to upgrade plan",
                      amount |-> q.amount, n |-> q.n, current_sub |-> cur,
                      new_plan |-> new_plan]
                 : q \in calculate_upgrade_price(cur, new_plan, now)}
                : cur \in current_subs}

\* update_plan with one keyword argument (field "none": every argument None)
update_plan(P, plan_id, field, value) ==
    IF get_plan(P, plan_id) = None
        THEN [plans |-> P, ok |-> FALSE, msg |-> "Plan not found"]
    ELSE IF field = "none"
        THEN [plans |-> P, ok |-> FALSE, msg |-> "No fields to update"]
    ELSE [plans |-> [P EXCEPT ![plan_id] =
                        IF field = "name" THEN [@ EXCEPT !.name = value]
                        ELSE IF field = "price" THEN [@ EXCEPT !.price = value]
                        ELSE [@ EXCEPT !.validity_days = value]],
          ok |-> TRUE, msg |-> "Plan updated successfully"]

\* SELECT COUNT(*) FROM subscriptions WHERE plan_id = ? AND status = 'active'
ActiveCountOfPlan(S, plan_id) ==
    Cardinality({i \in DOMAIN S : S[i].plan_id = plan_id /\ S[i].status = "active"})

\* The soft delete without the test for active subscriptions.
delete_plan_unchecked(P, S, plan_id) ==
    IF get_plan(P, plan_id) = None
        THEN [plans |-> P, ok |-> FALSE, msg |-> "Plan not found"]
    ELSE [plans |-> [P EXCEPT ![plan_id].name = ArchivedName(@)],
          ok |-> TRUE, msg |-> "Plan deleted successfully"]

\* delete_plan: the soft delete tags the plan's name
delete_plan(P, S, plan_id) ==
    IF get_plan(P, plan_id) = None
        THEN [plans |-> P, ok |-> FALSE, msg |-> "Plan not found"]
    ELSE IF ActiveCountOfPlan(S, plan_id) > 0
        THEN [plans |-> P, ok |-> FALSE,
              msg |-> "Cannot delete plan with active subscriptions"]
    ELSE [plans |-> [P EXCEPT ![plan_id].name = ArchivedName(@)],
          ok |-> TRUE, msg |-> "Plan deleted successfully"]

\* ------------------------------------------------------------------ state machine
\* What `last` records of a call: the arguments, the returned flag and message,
\* the date of the call, the quoted amount, and what the call read (the
\* customer's number of active rows before it, the current subscription and
\* the new plan it worked with).
Call(op, user_id, plan_id, ok, msg) ==
    [op |-> op, user |-> user_id, plan |-> plan_id, ok |-> ok, msg |-> msg,
     now |-> today, amount |-> 0, n |-> 0, pre_active |-> 0,
     current_sub |-> None, new_plan |-> None]

NoCall == [Call("none", 0, 0, FALSE, "") EXCEPT !.now = 0]

\* A request of one browser session between two of its statements.
Sessions == {1, 2}
Idle == [pc |-> "idle"]

\* ensure_default_admin: the users table starts with the administrator.
DefaultAdmin == [username |-> "admin", role |-> "admin"]

\* The other tables as create_tables and ensure_default_admin leave them.
InitPortal ==
    /\ users = <<DefaultAdmin>>
    /\ notifications = <<>>
    /\ referrals = <<>>
    /\ payments = <<>>
    /\ broadcasts = <<>>

Init ==
    /\ today = 0
    /\ plans = <<>>
    /\ subs = <<>>
    /\ last = NoCall
    /\ req = [s \in Sessions |-> Idle]
    /\ InitPortal

\* The date changes between two calls.
Tick ==
    /\ today < MaxDay
    /\ today' = today + 1
    /\ UNCHANGED <<plans, subs, last, req, portal>>

\* create_plan(name, ..., price, validity_days, ...)
CreatePlanFrom(prices, validities) ==
    \E name \in NameInputs, price \in prices, validity_days \in validities :
        LET r == create_plan(plans, name, price, validity_days) IN
        /\ Len(plans) < MaxPlans
        /\ plans' = r.plans
        /\ last' = Call("create_plan", 0, Len(plans) + 1, r.ok, r.msg)
        /\ UNCHANGED <<today, subs, req, portal>>

CreatePlan == CreatePlanFrom(PriceInputs, ValidityInputs)

\* subscribe_to_plan(user_id, plan_id), all of it with no other request between
\* its statements
SubscribeWith(callers, faults) ==
    \E user_id \in callers, plan_id \in PlanIds, f \in faults :
        LET r == subscribe_to_plan(subs, plans, today, user_id, plan_id, f) IN
        /\ Len(subs) < MaxSubs
        /\ subs' = r.subs
        /\ last' = [Call("subscribe", user_id, plan_id, r.ok, r.msg) EXCEPT
                        !.pre_active = Cardinality(ActiveOf(subs, user_id)),
                        !.new_plan = get_plan(plans, plan_id)]
        /\ UNCHANGED <<today, plans, req, portal>>

Subscribe == SubscribeWith(Users, {NoFault})

\* A change of plan that books the quoted amount as a pending payment.
ChangePlanWith_charging(callers, faults) ==
    \E user_id \in callers, new_plan_id \in PlanIds, f \in faults :
        \E r \in upgrade_plan(subs, plans, today, user_id, new_plan_id, f) :
            /\ Len(subs) < MaxSubs
            /\ subs' = r.subs
            /\ payments' = IF r.ok
                               THEN Append(payments, [user_id |-> user_id,
                                                      amount |-> r.amount,
                                                      status |-> "pending"])
                               ELSE payments
            /\ last' = [Call("change_plan", user_id, new_plan_id, r.ok, r.msg) EXCEPT
                            !.amount = r.amount, !.n = r.n,
                            !.pre_active = Cardinality(ActiveOf(subs, user_id)),
                            !.current_sub = r.current_sub,
                            !.new_plan = r.new_plan]
            /\ UNCHANGED <<today, plans, req, users, notifications, referrals,
                           broadcasts>>

\* upgrade_plan(user_id, new_plan_id), all of it with no other request between
\* its statements
ChangePlanWith(callers, faults) ==
    \E user_id \in callers, new_plan_id \in PlanIds, f \in faults :
        \E r \in upgrade_plan(subs, plans, today, user_id, new_plan_id, f) :
            /\ Len(subs) < MaxSubs
            /\ subs' = r.subs
            /\ last' = [Call("change_plan", user_id, new_plan_id, r.ok, r.msg) EXCEPT
                            !.amount = r.amount, !.n = r.n,
                            !.pre_active = Cardinality(ActiveOf(subs, user_id)),
                            !.current_sub = r.current_sub,
                            !.new_plan = r.new_plan]
            /\ UNCHANGED <<today, plans, req, portal>>

ChangePlan == ChangePlanWith(Users, {NoFault})

\* The subscription ledger used by one request at a time, every statement
\* executing.
Next ==
    \/ Tick
    \/ CreatePlan
    \/ Subscribe
    \/ ChangePlan

Spec == Init /\ [][Next]_vars

Cancelled(S, user_id) ==
    {i \in DOMAIN S : S[i].user_id = user_id /\ S[i].status = "cancelled"}

\* The step is a call that appended a row to the ledger.
Inserted == Len(subs') = Len(subs) + 1

\* ------------------------------------------------------------------ catalog management
TagCount(name) == Cardinality({k \in DOMAIN name : name[k] = ARCHIVED})

\* update_plan(plan_id, price=...), update_plan(plan_id, validity_days=...),
\* update_plan(plan_id)
UpdatePlan ==
    \E plan_id \in PlanIds :
        \E a \in ({[field |-> "none", value |-> 0]}
                  \cup {[field |-> "price", value |-> v] : v \in PriceInputs}
                  \cup {[field |-> "validity_days", value |-> v] :
                            v \in CatalogValidityInputs}) :
            LET r == update_plan(plans, plan_id, a.field, a.value) IN
            /\ plans' = r.plans
            /\ last' = Call("update_plan", 0, plan_id, r.ok, r.msg)
            /\ UNCHANGED <<today, subs, req, portal>>

\* delete_plan(plan_id)
DeletePlan ==
    \E plan_id \in PlanIds :
        LET r == delete_plan(plans, subs, plan_id) IN
        /\ plan_id \in DOMAIN plans => TagCount(plans[plan_id].name) < MaxTags
        /\ plans' = r.plans
        /\ last' = Call("delete_plan", 0, plan_id, r.ok, r.msg)
        /\ UNCHANGED <<today, subs, req, portal>>

CreatePlanCatalog == CreatePlanFrom(PriceInputs, CatalogValidityInputs)
SubscribeCatalog == SubscribeWith(SingleUser, {NoFault})
ChangePlanCatalog == ChangePlanWith(SingleUser, {NoFault})

\* The catalog managed while one customer subscribes and switches.
NextCatalog ==
    \/ CreatePlanCatalog
    \/ UpdatePlan
    \/ DeletePlan
    \/ SubscribeCatalog
    \/ ChangePlanCatalog

SpecCatalog == Init /\ [][NextCatalog]_vars

\* Exact value of the proration of `c`, a call that had a current subscription
\* and a new plan: amount_to_pay = ProrationNum(c) / ProrationDen(c).
RemainingDays(c) == c.current_sub.end_date - c.now
ProrationNum(c) ==
    RemainingDays(c) * (c.new_plan.price * c.current_sub.validity_days
                        - c.current_sub.price * c.new_plan.validity_days)
ProrationDen(c) == c.current_sub.validity_days * c.new_plan.validity_days

\* The call quoted a price for a running period: a current subscription with
\* days left, and per-day rates that exist.
Prorated(c) ==
    /\ c.current_sub # None /\ c.new_plan # None
    /\ RemainingDays(c) > 0
    /\ c.current_sub.validity_days > 0 /\ c.new_plan.validity_days > 0

\* C4: calculate_switch_price never returns a negative amount, and returns
\* exactly 0 whenever the new plan's cost over the remaining days is at most
\* the unused value of the current plan.
C4_NeverNegative ==
    (last.op = "change_plan" /\ last.new_plan # None) =>
        /\ last.amount >= 0
        /\ (Prorated(last) /\ ProrationNum(last) <= 0) => last.amount = 0

\* C8: a subscribe naming a plan that is archived at the time of the call is
\* refused and leaves the ledger as it was.
C8_NoSubscribeToArchived ==
    [][(/\ last'.op = "subscribe"
        /\ last'.plan \in DOMAIN plans
        /\ IsArchivedName(plans[last'.plan].name)) =>
            (~last'.ok /\ subs' = subs)
      ]_vars

\* ------------------------------------------------------------------ the calculator alone
\* The calculator's arguments: no current subscription or the joined row of
\* one, a plan row, and the date of the call.
CurrentSubInputs ==
    {None} \cup
    {[id |-> 1, user_id |-> 1, plan_id |-> 1, start_date |-> 0, end_date |-> e,
      price |-> p, validity_days |-> v] :
        e \in EndRange, p \in PriceRange, v \in ValidityRange}

NewPlanInputs ==
    {[id |-> 2, name |-> <<"Basic">>, price |-> p, validity_days |-> v] :
        p \in PriceRange, v \in ValidityRange}

InitPrice ==
    /\ today \in 0..MaxDay
    /\ plans = <<>>
    /\ subs = <<>>
    /\ req = [s \in Sessions |-> Idle]
    /\ InitPortal
    /\ \E c \in CurrentSubInputs, p \in NewPlanInputs :
          last = [Call("arguments", 0, 0, FALSE, "") EXCEPT
                      !.current_sub = c, !.new_plan = p]

\* calculate_upgrade_price(current_sub, new_plan)
Calculate ==
    /\ last.op = "arguments"
    /\ \E q \in calculate_upgrade_price(last.current_sub, last.new_plan, today) :
          last' = [last EXCEPT !.op = "calculate_upgrade_price", !.ok = TRUE,
                               !.msg = q.text, !.amount = q.amount, !.n = q.n]
    /\ UNCHANGED <<today, plans, subs, req, portal>>

NextPrice == Calculate

SpecPrice == InitPrice /\ [][NextPrice]_vars

Calculated == last.op = "calculate_upgrade_price"

\* C5 (as stated): with remaining days > 0 and a positive difference, the amount
\* is exactly (new price / new validity) * remaining_days
\* - (current price / current validity) * remaining_days.
C5_ExactDifference ==
    (Calculated /\ Prorated(last) /\ ProrationNum(last) > 0) =>
        /\ last.amount * ProrationDen(last) = 100 * ProrationNum(last)
        /\ last.msg = "Upgrade for days" /\ last.n = RemainingDays(last)

\* C5 (amended): with remaining days > 0 and a positive difference, the amount
\* is that difference rounded to the nearest hundredth, and the rationale
\* names the remaining-day count.
C5_RoundedDifference ==
    (Calculated /\ Prorated(last) /\ ProrationNum(last) > 0) =>
        LET err == last.amount * ProrationDen(last) - 100 * ProrationNum(last) IN
        /\ 2 * err <= ProrationDen(last) /\ 0 - 2 * err <= ProrationDen(last)
        /\ last.msg = "Upgrade for days" /\ last.n = RemainingDays(last)

\* The 300/30-day plan with 10 days left switched to the 600/30-day plan:
\* 100.00, for 10 days.
C5_Witness ==
    /\ Calculated /\ Prorated(last)
    /\ last.current_sub.price = 300 /\ last.current_sub.validity_days = 30
    /\ last.new_plan.price = 600 /\ last.new_plan.validity_days = 30
    /\ RemainingDays(last) = 10
    /\ last.amount = 10000 /\ last.n = 10

\* C6: with no current subscription, or with remaining days zero or negative,
\* the amount is the new plan's full price.
C6_FullPrice ==
    (Calculated /\ (last.current_sub = None \/ RemainingDays(last) <= 0)) =>
        last.amount = 100 * last.new_plan.price

\* A current subscription on its last day, on a dearer plan than the new one.
C6_Witness ==
    /\ Calculated /\ last.current_sub # None
    /\ RemainingDays(last) = 0
    /\ last.current_sub.price = 600 /\ last.new_plan.price = 300
    /\ last.amount = 30000

\* ------------------------------------------------------------------ failing statements
\* Which statements of a handler sqlite executes.
Faults == [read_sub : BOOLEAN, read_plan : BOOLEAN, update : BOOLEAN, insert : BOOLEAN]

SubscribeFault == SubscribeWith(SingleUser, Faults)
ChangePlanFault == ChangePlanWith(SingleUser, Faults)

\* The ledger used by one request at a time, any statement possibly failing.
NextFault ==
    \/ Tick
    \/ CreatePlan
    \/ SubscribeFault
    \/ ChangePlanFault

SpecFault == Init /\ [][NextFault]_vars

\* C9: when subscribe or change_plan returns failure, the subscription ledger
\* is what it was before the call.
C9_FailureLeavesLedger ==
    [][(last'.op \in {"subscribe", "change_plan"} /\ ~last'.ok) => subs' = subs]_vars

\* ------------------------------------------------------------------ interleaved requests
\* Each statement of a handler is committed on its own connection, so the
\* statements of the requests of two sessions interleave.  A session's request
\* record holds the handler's local variables between two statements.
Set(s, r) == req' = [req EXCEPT ![s] = r]

\* subscribe_to_plan up to its first write: plan = get_plan(plan_id)
BeginSubscribe(s, callers) ==
    /\ req[s] = Idle
    /\ \E user_id \in callers, plan_id \in PlanIds :
          LET plan == get_plan(plans, plan_id) IN
          IF plan = None
              THEN /\ last' = Call("subscribe", user_id, plan_id, FALSE, "Plan not found")
                   /\ UNCHANGED req
              ELSE /\ Set(s, [pc |-> "cancel", op |-> "subscribe", user |-> user_id,
                              plan |-> plan])
                   /\ UNCHANGED last
    /\ UNCHANGED <<today, plans, subs, portal>>

\* the cancelling UPDATE of subscribe_to_plan
SubscribeCancel(s) ==
    /\ req[s].pc = "cancel" /\ req[s].op = "subscribe"
    /\ subs' = CancelActiveOfUser(subs, req[s].user)
    /\ Set(s, [req[s] EXCEPT !.pc = "insert"])
    /\ UNCHANGED <<today, plans, last, portal>>

\* the INSERT of subscribe_to_plan, and its return
SubscribeInsert(s) ==
    /\ req[s].pc = "insert" /\ req[s].op = "subscribe"
    /\ Len(subs) < MaxSubs
    /\ subs' = InsertSubscription(subs, req[s].user, req[s].plan.id, today,
                                  today + req[s].plan.validity_days)
    /\ last' = [Call("subscribe", req[s].user, req[s].plan.id, TRUE,
                     "Subscribed successfully") EXCEPT !.new_plan = req[s].plan]
    /\ Set(s, Idle)
    /\ UNCHANGED <<today, plans, portal>>

\* upgrade_plan up to its second read: current_sub = get_user_active_subscription(user_id)
BeginChangePlan(s) ==
    /\ req[s] = Idle
    /\ \E user_id \in SingleUser, new_plan_id \in PlanIds :
          \E cur \in get_user_active_subscription(subs, plans, user_id) :
              Set(s, [pc |-> "plan", op |-> "change_plan", user |-> user_id,
                      plan_id |-> new_plan_id, current_sub |-> cur])
    /\ UNCHANGED <<today, plans, subs, last, portal>>

\* new_plan = get_plan(new_plan_id), the early return, and the quote
ChangePlanQuote(s) ==
    /\ req[s].pc = "plan"
    /\ LET r == req[s]
           new_plan == get_plan(plans, r.plan_id)
       IN  IF new_plan = None
               THEN /\ last' = [Call("change_plan", r.user, r.plan_id, FALSE,
                                     "Plan not found") EXCEPT
                                    !.current_sub = r.current_sub]
                    /\ Set(s, Idle)
               ELSE /\ \E q \in calculate_upgrade_price(r.current_sub, new_plan, today) :
                          Set(s, [pc |-> IF r.current_sub = None THEN "insert" ELSE "cancel",
                                  op |-> "change_plan", user |-> r.user,
                                  current_sub |-> r.current_sub, plan |-> new_plan,
                                  quote |-> q])
                    /\ UNCHANGED last
    /\ UNCHANGED <<today, plans, subs, portal>>

\* the cancelling UPDATE of upgrade_plan
ChangePlanCancel(s) ==
    /\ req[s].pc = "cancel" /\ req[s].op = "change_plan"
    /\ subs' = CancelById(subs, req[s].current_sub.id, today)
    /\ Set(s, [req[s] EXCEPT !.pc = "insert"])
    /\ UNCHANGED <<today, plans, last, portal>>

\* the INSERT of upgrade_plan, and its return
ChangePlanInsert(s) ==
    /\ req[s].pc = "insert" /\ req[s].op = "change_plan"
    /\ Len(subs) < MaxSubs
    /\ LET r == req[s] IN
          /\ subs' = InsertSubscription(subs, r.user, r.plan.id, today,
                                        UpgradeEnd(r.current_sub, r.plan, today))
          /\ last' = [Call("change_plan", r.user, r.plan.id, TRUE, r.quote.text) EXCEPT
                          !.amount = r.quote.amount, !.n = r.quote.n,
                          !.current_sub = r.current_sub, !.new_plan = r.plan]
    /\ Set(s, Idle)
    /\ UNCHANGED <<today, plans, portal>>

CreatePlanRace == CreatePlanFrom(PriceInputs, {1})
SubscribeSerial == SubscribeWith(SingleUser, {NoFault})
ChangePlanSerial == ChangePlanWith(SingleUser, {NoFault})

\* The subscribe requests of two sessions for one customer, statement by
\* statement, among requests that run from start to end with no other
\* statement in between.
NextRace ==
    \/ Tick
    \/ CreatePlanRace
    \/ SubscribeSerial
    \/ \E s \in Sessions :
          \/ BeginSubscribe(s, SingleUser)
          \/ SubscribeCancel(s)
          \/ SubscribeInsert(s)

SpecRace == Init /\ [][NextRace]_vars

Room == Len(subs) < MaxSubs - 1

\* The subscribe and change_plan requests of two sessions for one customer,
\* statement by statement, among requests that run from start to end, while
\* the ledger has room.
NextRaceAll ==
    \/ Room /\ CreatePlanRace
    \/ Room /\ SubscribeSerial
    \/ Room /\ ChangePlanSerial
    \/ \E s \in Sessions :
          \/ Room /\ BeginSubscribe(s, SingleUser)
          \/ Room /\ SubscribeCancel(s)
          \/ Room /\ SubscribeInsert(s)
          \/ Room /\ BeginChangePlan(s)
          \/ Room /\ ChangePlanQuote(s)
          \/ Room /\ ChangePlanCancel(s)
          \/ Room /\ ChangePlanInsert(s)

SpecRaceAll == Init /\ [][NextRaceAll]_vars

C7_SubscribeUnknownPlan ==
    [][(last'.op = "subscribe" /\ last'.plan \notin DOMAIN plans) =>
        (~last'.ok /\ last'.msg = "Plan not found" /\ subs' = subs)
      ]_vars

\* A refused subscribe of a customer whose active subscription is still there.
C7_Witness ==
    /\ last.op = "subscribe" /\ ~last.ok /\ last.msg = "Plan not found"
    /\ last.plan \notin DOMAIN plans
    /\ ActiveOf(subs, last.user) # {}

\* C10: a row's status only ever changes from 'active' to 'cancelled', no row
\* is removed, and no row ever has the status 'expired'.
C10_StatusOneWay ==
    [][/\ \A i \in DOMAIN subs :
             /\ i \in DOMAIN subs'
             /\ subs'[i].status # subs[i].status =>
                   (subs[i].status = "active" /\ subs'[i].status = "cancelled")
       /\ \A i \in DOMAIN subs' : subs'[i].status \in {"active", "cancelled"}
      ]_vars

\* Rows cancelled by both operations, with later calls of the same customer
\* made after the cancellations.
C10_Witness ==
    \E u \in Users : \E i, j \in Cancelled(subs, u) :
        /\ i < j /\ j < Len(subs)
        /\ subs[i].cancelled_date = NULL /\ subs[j].cancelled_date # NULL

\* ------------------------------------------------------------------ requests of two sessions, statement by statement
\* C11: the cancel-old and create-new writes form one atomic unit: no read of
\* get_user_active_subscription by another request finds the customer of a
\* request that is between its two writes with the old subscription cancelled
\* and no active subscription.
C11_NoSplitObserved ==
    \A s \in Sessions :
        req[s].pc = "insert" =>
            ~(/\ Cancelled(subs, req[s].user) # {}
              /\ get_user_active_subscription(subs, plans, req[s].user) = {None})

\* C12: a customer gets a second active row only by a statement of a request
\* that runs interleaved with another request's statements; a request that
\* runs from start to end with nothing in between never creates one.
C12_OnlyInterleavingBreaks ==
    [][\A u \in SingleUser :
          (Cardinality(ActiveOf(subs, u)) <= 1 /\ Cardinality(ActiveOf(subs', u)) > 1) =>
              /\ req' # req
              /\ \E s \in Sessions : req[s].pc = "insert" /\ req'[s] = Idle
      ]_vars

\* A change_plan that read "no active subscription" before another request
\* inserted its row: both requests have returned and both rows are active.
C12_Witness ==
    /\ \A s \in Sessions : req[s] = Idle
    /\ last.op = "change_plan" /\ last.ok /\ last.current_sub = None
    /\ \E u \in SingleUser : ActiveOf(subs, u) = {1, 2}

\* ------------------------------------------------------------------ users
\* The ids of a table's rows in ORDER BY id DESC.
IdsDesc(T) == [k \in 1..Len(T) |-> Len(T) + 1 - k]

\* The read with the role filter left out.
read_all_users_unfiltered(U, role_filter) ==
    [k \in 1..Len(U) |->
        [id |-> IdsDesc(U)[k], username |-> U[IdsDesc(U)[k]].username,
         role |-> U[IdsDesc(U)[k]].role]]

\* read_all_users(role_filter=...): the rows, as (id, username, role), newest
\* first; every role when the filter is None or "All".
read_all_users(U, role_filter) ==
    LET Keep(i) == role_filter \in {"None", "All"} \/ U[i].role = role_filter
        ids == SelectSeq(IdsDesc(U), Keep)
    IN  [k \in 1..Len(ids) |->
            [id |-> ids[k], username |-> U[ids[k]].username, role |-> U[ids[k]].role]]

\* create_user(username, ..., role=...)
create_user(U, username, role) ==
    IF \E i \in DOMAIN U : U[i].username = username
        THEN [users |-> U, ok |-> FALSE, msg |-> "Username already exists"]
        ELSE [users |-> Append(U, [username |-> username, role |-> role]),
              ok |-> TRUE, msg |-> "User created successfully"]

\* delete_user(user_id): the soft delete sets the role to 'archived'
delete_user(U, S, user_id) ==
    IF user_id \notin DOMAIN U
        THEN [users |-> U, ok |-> FALSE, msg |-> "User not found"]
    ELSE IF ActiveOf(S, user_id) # {}
        THEN [users |-> U, ok |-> FALSE,
              msg |-> "Cannot delete user with active subscriptions"]
    ELSE [users |-> [U EXCEPT ![user_id].role = "archived"],
          ok |-> TRUE, msg |-> "User deleted successfully"]

\* ------------------------------------------------------------------ notifications
\* INSERT INTO notifications (sender_id, recipient_id, title, message,
\*                            notification_type, created_date, target_type, is_read)
\* created_date: datetime.utcnow().isoformat(), evaluated for this INSERT
InsertNotification(N, m, recipient_id, created_date) ==
    Append(N, [sender_id |-> m.sender_id, recipient_id |-> recipient_id,
               title |-> m.title, message |-> m.message,
               notification_type |-> m.notification_type,
               created_date |-> created_date,
               target_type |-> m.target_type, is_read |-> 0])

\* The count moved on for every attempt.
Sent_attempts(sent_count, result) == sent_count + 1

\* if result: sent_count += 1
Sent(sent_count, result) == IF result THEN sent_count + 1 ELSE sent_count

\* The positions of the loop of a send.
Positions == 1..Cardinality(UsernameInputs)

\* datetime.utcnow() at the INSERT of position k: the date of the call and the
\* reading of the microsecond clock, counted from the start of the call.
utcnow(m, clock, k) == <<m.now, clock[k]>>

\* The loop over the recipients from position k on: one INSERT per recipient,
\* each with its own reading of the clock and committed on its own; `f.fails`
\* are the positions whose INSERT raises, `f.clock` the readings of the clock.
RECURSIVE SendLoop(_, _, _, _, _, _)
SendLoop(N, sent_count, m, R, k, f) ==
    IF k > Len(R)
        THEN [notifications |-> N, sent_count |-> sent_count]
        ELSE LET result == k \notin f.fails
                 N1 == exec_query(result, N,
                          InsertNotification(N, m, R[k], utcnow(m, f.clock, k)))
             IN  SendLoop(N1, Sent(sent_count, result), m, R, k + 1, f)

\* The clock moving on by one reading from each INSERT to the next.
SteadyClock == [k \in Positions |-> k]

\* Every INSERT of a send executes, and so does its read of the users; the
\* clock moves on between the INSERTs.
NoSendFault == [read |-> TRUE, fails |-> {}, clock |-> SteadyClock]

\* send_notification(sender_id, title, message, recipient_ids=..., target_type=...):
\* m holds sender_id, title, message, notification_type, target_type and the
\* date of the call.
send_notification(N, U, m, recipient_ids, f) ==
    LET all == IF f.read THEN read_all_users(U, "user") ELSE <<>>
        R == IF m.target_type = "all"
                 THEN [k \in 1..Len(all) |-> all[k].id]
                 ELSE recipient_ids
        r == SendLoop(N, 0, m, R, 1, f)
    IN  [notifications |-> r.notifications, ok |-> TRUE,
         msg |-> "Notification sent successfully to users", n |-> r.sent_count,
         recipients |-> R]

\* The read that also returns the rows sent to all.
get_user_notifications_shared(N, user_id) ==
    {i \in DOMAIN N : N[i].recipient_id = user_id \/ N[i].target_type = "all"}

\* SELECT * FROM notifications WHERE recipient_id = ?  (the ids of the rows)
get_user_notifications(N, user_id) ==
    {i \in DOMAIN N : N[i].recipient_id = user_id}

\* The UPDATE reaching every row of the same recipient.
mark_notification_as_read_all(N, notification_id, ok) ==
    [notifications |->
        exec_query(ok, N,
            [i \in DOMAIN N |->
                IF notification_id \in DOMAIN N
                   /\ N[i].recipient_id = N[notification_id].recipient_id
                    THEN [N[i] EXCEPT !.is_read = 1] ELSE N[i]]),
     result |-> ok]

\* UPDATE notifications SET is_read = 1 WHERE id = ?
mark_notification_as_read(N, notification_id, ok) ==
    [notifications |->
        exec_query(ok, N,
            [i \in DOMAIN N |->
                IF i = notification_id THEN [N[i] EXCEPT !.is_read = 1] ELSE N[i]]),
     result |-> ok]

\* ------------------------------------------------------------------ referrals
\* A create_referral that also completes the referrer's earlier referrals.
create_referral_completing(R, referrer_user_id, referred_email, now, ok) ==
    [referrals |->
        exec_query(ok, R,
            Append([i \in DOMAIN R |->
                       IF R[i].referrer_user_id = referrer_user_id
                           THEN [R[i] EXCEPT !.status = "completed"] ELSE R[i]],
                   [referrer_user_id |-> referrer_user_id,
                    referred_email |-> referred_email, status |-> "pending",
                    reward_amount |-> 100, created_date |-> now])),
     ok |-> ok,
     msg |-> IF ok THEN "Referral created successfully" ELSE "Failed to create referral"]

\* create_referral(referrer_user_id, referred_email)
create_referral(R, referrer_user_id, referred_email, now, ok) ==
    [referrals |->
        exec_query(ok, R,
            Append(R, [referrer_user_id |-> referrer_user_id,
                       referred_email |-> referred_email, status |-> "pending",
                       reward_amount |-> 100, created_date |-> now])),
     ok |-> ok,
     msg |-> IF ok THEN "Referral created successfully" ELSE "Failed to create referral"]

\* ------------------------------------------------------------------ the portal's other calls
\* What `last` records of one of these calls: the returned flag and message,
\* the number formatted into the message, and the arguments.
PortalCall(op, ok, msg, n, args) ==
    [op |-> op, ok |-> ok, msg |-> msg, n |-> n, args |-> args, now |-> today]

\* The customers: the users with role 'user'.
Customers(U) == {i \in DOMAIN U : U[i].role = "user"}

\* create_user(username, password, name, email, role=role)
CreateUser ==
    \E username \in UsernameInputs, role \in RoleInputs :
        LET r == create_user(users, username, role) IN
        /\ users' = r.users
        /\ last' = PortalCall("create_user", r.ok, r.msg, 0, [role |-> role])
        /\ UNCHANGED <<today, plans, subs, req, notifications, referrals, payments,
                       broadcasts>>

\* delete_user(user_id)
DeleteUser ==
    \E user_id \in 1..(Len(users) + 1) :
        LET r == delete_user(users, subs, user_id) IN
        /\ users' = r.users
        /\ last' = PortalCall("delete_user", r.ok, r.msg, 0, <<>>)
        /\ UNCHANGED <<today, plans, subs, req, notifications, referrals, payments,
                       broadcasts>>

\* The lists the "Selected Users" form passes: one or two distinct customers.
RecipientLists(U) ==
    {<<a>> : a \in Customers(U)}
        \cup {<<p[1], p[2]>> : p \in {q \in Customers(U) \X Customers(U) : q[1] # q[2]}}

\* The calls the send form makes: to all, or to a selected list.
SendInputs(U) ==
    {[target_type |-> "all", recipient_ids |-> <<>>]}
        \cup {[target_type |-> "specific", recipient_ids |-> R] : R \in RecipientLists(U)}

\* send_notification(user['id'], title, message, notification_type, ...), by an
\* administrator
SendWith(faults) ==
    \E sender_id \in {i \in DOMAIN users : users[i].role = "admin"},
       title \in TitleInputs, message \in MessageInputs,
       notification_type \in TypeInputs,
       a \in SendInputs(users), f \in faults :
        LET m == [sender_id |-> sender_id, title |-> title, message |-> message,
                  notification_type |-> notification_type,
                  target_type |-> a.target_type, now |-> today]
            r == send_notification(notifications, users, m, a.recipient_ids, f)
            made == (Len(notifications) + 1)..Len(r.notifications)
        IN  /\ Len(notifications) + Len(r.recipients) <= MaxNotes
            /\ a.target_type = "all" => Len(broadcasts) < MaxSends
            /\ notifications' = r.notifications
            /\ broadcasts' =
                  IF a.target_type = "all"
                      THEN Append(broadcasts, [audience |-> Customers(users), rows |-> made])
                      ELSE broadcasts
            /\ last' = PortalCall("send_notification", r.ok, r.msg, r.n,
                                  [target_type |-> a.target_type,
                                   attempts |-> Len(r.recipients), fails |-> f.fails])
            /\ UNCHANGED <<today, plans, subs, req, users, referrals, payments>>

Send == SendWith({NoSendFault})

\* mark_notification_as_read(notif['id'])
MarkReadWith(oks) ==
    \E notification_id \in 1..(Len(notifications) + 1), ok \in oks :
        LET r == mark_notification_as_read(notifications, notification_id, ok) IN
        /\ notifications' = r.notifications
        /\ last' = PortalCall("mark_notification_as_read", r.result, "", 0,
                              [notification_id |-> notification_id])
        /\ UNCHANGED <<today, plans, subs, req, users, referrals, payments, broadcasts>>

MarkRead == MarkReadWith({TRUE})

\* The notifications of the portal, every statement executing.
NextNotify ==
    \/ CreateUser
    \/ DeleteUser
    \/ Send
    \/ MarkRead

SpecNotify == Init /\ [][NextNotify]_vars

\* The rows a step added to the notifications table.
Made == (Len(notifications) + 1)..Len(notifications')

\* The step is a send to all.
SentToAll == last'.op = "send_notification" /\ last'.args.target_type = "all"

\* C13: a send to all issued when N non-archived customers exist creates
\* exactly N rows, one per such customer and none for any other user, all with
\* the same title and message and all unread; the rows there were stay as they are.
C13_BroadcastOnePerCustomer ==
    [][SentToAll =>
        /\ Cardinality(Made) = Cardinality(Customers(users))
        /\ \A u \in Customers(users) :
              Cardinality({i \in Made : notifications'[i].recipient_id = u}) = 1
        /\ \A i \in Made :
              /\ notifications'[i].recipient_id \in Customers(users)
              /\ notifications'[i].is_read = 0
              /\ notifications'[i].target_type = "all"
        /\ \A i, j \in Made :
              /\ notifications'[i].title = notifications'[j].title
              /\ notifications'[i].message = notifications'[j].message
        /\ \A i \in DOMAIN notifications : notifications'[i] = notifications[i]
      ]_vars

\* A send to all with one customer, one archived user and the administrator:
\* one row, the customer's.
C13_Witness ==
    /\ last.op = "send_notification" /\ last.args.target_type = "all"
    /\ last.n = 1
    /\ \E u \in DOMAIN users : users[u].role = "archived"
    /\ \E u \in Customers(users) :
          get_user_notifications(notifications, u) = {Len(notifications)}

\* C14: in every state, the users who have a notification row of a send to
\* all are exactly the customers that existed, not archived, when it was sent;
\* a customer created later has none.
C14_RecipientsFixedAtSend ==
    \A b \in DOMAIN broadcasts : \A u \in DOMAIN users :
        (get_user_notifications(notifications, u) \cap broadcasts[b].rows # {})
            <=> u \in broadcasts[b].audience

\* A customer created after a send to all, with a notification of their own
\* and none of that send.
C14_Witness ==
    \E b \in DOMAIN broadcasts : \E u \in Customers(users) :
        /\ broadcasts[b].audience # {}
        /\ u \notin broadcasts[b].audience
        /\ \A v \in broadcasts[b].audience : v < u
        /\ get_user_notifications(notifications, u) # {}
        /\ get_user_notifications(notifications, u) \cap broadcasts[b].rows = {}

\* C15: a notification row only ever changes by its read flag going from 0 to
\* 1, no row is removed, and mark_notification_as_read(id) sets the flag of
\* row id and changes no other row.
C15_OnlyReadFlag ==
    [][/\ \A i \in DOMAIN notifications :
             /\ i \in DOMAIN notifications'
             /\ \/ notifications'[i] = notifications[i]
                \/ /\ notifications[i].is_read = 0
                   /\ notifications'[i] = [notifications[i] EXCEPT !.is_read = 1]
       /\ last'.op = "mark_notification_as_read" =>
             /\ DOMAIN notifications' = DOMAIN notifications
             /\ \A i \in DOMAIN notifications :
                   IF i = last'.args.notification_id
                       THEN notifications'[i] = [notifications[i] EXCEPT !.is_read = 1]
                       ELSE notifications'[i] = notifications[i]
      ]_vars

\* One of two rows of the same recipient marked read, the other still unread.
C15_Witness ==
    /\ last.op = "mark_notification_as_read"
    /\ last.args.notification_id \in DOMAIN notifications
    /\ notifications[last.args.notification_id].is_read = 1
    /\ \E j \in DOMAIN notifications :
          /\ j # last.args.notification_id
          /\ notifications[j].recipient_id
                = notifications[last.args.notification_id].recipient_id
          /\ notifications[j].is_read = 0

\* ------------------------------------------------------------------ referrals among the other calls
\* create_referral(user['id'], friend_email)
CreateReferral ==
    \E referrer_user_id \in DOMAIN users, referred_email \in EmailInputs :
        LET r == create_referral(referrals, referrer_user_id, referred_email, today, TRUE) IN
        /\ Len(referrals) < MaxReferrals
        /\ referrals' = r.referrals
        /\ last' = PortalCall("create_referral", r.ok, r.msg, 0,
                              [referrer_user_id |-> referrer_user_id])
        /\ UNCHANGED <<today, plans, subs, req, users, notifications, payments,
                       broadcasts>>

\* Referrals created while users sign up and are archived and plans are
\* created, over the days.
NextReferral ==
    \/ Tick
    \/ CreateReferral
    \/ CreateUser
    \/ DeleteUser
    \/ CreatePlanRace

SpecReferral == Init /\ [][NextReferral]_vars

LatestActive(S, user_id) ==
    CHOOSE i \in ActiveOf(S, user_id) :
        \A j \in ActiveOf(S, user_id) :
            \/ S[j].start_date < S[i].start_date
            \/ S[j].start_date = S[i].start_date /\ j <= i

\* C17: when a customer has more than one active row,
\* get_user_active_subscription returns the row with the latest start date
\* and, among rows with equal start date, the one with the highest id.
C17_LatestThenHighestId ==
    \A u \in Users :
        Cardinality(ActiveOf(subs, u)) > 1 =>
            \A r \in get_user_active_subscription(subs, plans, u) :
                r.id = LatestActive(subs, u)

\* ------------------------------------------------------------------ the plans of the catalog
\* C20: after any sequence of create_plan and update_plan calls, every plan
\* has price >= 0 and validity_days > 0.
C20_PlanInvariant ==
    \A i \in DOMAIN plans : plans[i].price >= 0 /\ plans[i].validity_days > 0

\* ------------------------------------------------------------------ failing statements of a send
\* Which statements of a send sqlite executes: the read of the users, and the
\* INSERT of each position of the loop.
SendFaults ==
    [read : BOOLEAN, fails : SUBSET Positions, clock : {SteadyClock}]

SendFault == SendWith(SendFaults)

\* Sends among sign-ups, any statement of a send possibly failing.
NextNotifyFault ==
    \/ CreateUser
    \/ SendFault

SpecNotifyFault == Init /\ [][NextNotifyFault]_vars

\* C19: a send returns the number of rows it created: when k of its n INSERTs
\* execute, the count in the result is k, the k rows are in the table after
\* the call, and the rows there were are as they were.
C19_CountOfCreatedRows ==
    [][last'.op = "send_notification" =>
        LET k == Cardinality((1..last'.args.attempts) \ last'.args.fails) IN
        /\ last'.ok
        /\ last'.n = k
        /\ Len(notifications') = Len(notifications) + k
        /\ \A i \in DOMAIN notifications : notifications'[i] = notifications[i]
      ]_vars

\* A send of two INSERTs of which the first failed: the count is 1 and the
\* second recipient's row is in the table.
C19_Witness ==
    /\ last.op = "send_notification"
    /\ last.args.attempts = 2 /\ last.args.fails = {1}
    /\ last.n = 1
    /\ Len(notifications) >= 1
    /\ notifications[Len(notifications)].is_read = 0

\* ------------------------------------------------------------------ the calculator called again
\* The calculator's arguments for repeated calls.
PurePrices == {0, 1, 2}
PureValidities == {1, 8}
PureEnds == 0..(MaxDay + 2)

PureCurrentSubs ==
    {None} \cup
    {[id |-> 1, user_id |-> 1, plan_id |-> 1, start_date |-> 0, end_date |-> e,
      price |-> p, validity_days |-> v] :
        e \in PureEnds, p \in PurePrices, v \in PureValidities}

PureNewPlans ==
    {[id |-> 2, name |-> <<"Basic">>, price |-> p, validity_days |-> v] :
        p \in PurePrices, v \in PureValidities}

\* Float arithmetic is a function of its operands: for given arguments and a
\* given date, a value half way between two hundredths is rounded to the same
\* neighbour at every call.  `tie` says which (0: the lower, 1: the upper).
Resolve(Q, tie) ==
    CHOOSE q \in Q :
        \A p \in Q : IF tie = 0 THEN q.amount + q.n <= p.amount + p.n
                                 ELSE q.amount + q.n >= p.amount + p.n

\* The arguments, the rounding of the platform on each date, and no call yet.
InitPure ==
    /\ today \in 0..MaxDay
    /\ plans = <<>>
    /\ subs = <<>>
    /\ req = [s \in Sessions |-> Idle]
    /\ InitPortal
    /\ \E c \in PureCurrentSubs, p \in PureNewPlans, t \in [0..MaxDay -> {0, 1}] :
          last = [op |-> "arguments", current_sub |-> c, new_plan |-> p, tie |-> t,
                  now |-> 0, amount |-> 0, msg |-> "", n |-> 0, calls |-> 0]

\* A calculator that books the quoted amount as a payment.
CalculateCall_charging ==
    /\ last.calls < 2
    /\ LET q == Resolve(calculate_upgrade_price(last.current_sub, last.new_plan, today),
                        last.tie[today])
       IN  /\ last' = [last EXCEPT !.op = "calculate_upgrade_price", !.now = today,
                                    !.amount = q.amount, !.msg = q.text, !.n = q.n,
                                    !.calls = @ + 1]
           /\ payments' = Append(payments, [user_id |-> 1, amount |-> q.amount,
                                            status |-> "pending"])
    /\ UNCHANGED <<today, plans, subs, req, users, notifications, referrals, broadcasts>>

\* calculate_upgrade_price(current_sub, selected_plan), up to twice
CalculateCall ==
    /\ last.calls < 2
    /\ LET q == Resolve(calculate_upgrade_price(last.current_sub, last.new_plan, today),
                        last.tie[today])
       IN  last' = [last EXCEPT !.op = "calculate_upgrade_price", !.now = today,
                                !.amount = q.amount, !.msg = q.text, !.n = q.n,
                                !.calls = @ + 1]
    /\ UNCHANGED <<today, plans, subs, req, portal>>

NextPure ==
    \/ Tick
    \/ CalculateCall

SpecPure == InitPure /\ [][NextPure]_vars

InviteEmails == {"", "friend@mail", "other@mail"}

\* The existence check looking only for referrals already completed.
ExistingReferrals_completed(R, referrer_user_id, referred_email) ==
    {i \in DOMAIN R : /\ R[i].referrer_user_id = referrer_user_id
                      /\ R[i].referred_email = referred_email
                      /\ R[i].status = "completed"}

\* SELECT id FROM referrals WHERE referrer_user_id = ? AND referred_email = ?
ExistingReferrals(R, referrer_user_id, referred_email) ==
    {i \in DOMAIN R : /\ R[i].referrer_user_id = referrer_user_id
                      /\ R[i].referred_email = referred_email}

\* The "Send Invitation" button of a logged-in customer, the request run from
\* start to end: no e-mail, an e-mail already referred, or create_referral.
Invite ==
    \E referrer_user_id \in Customers(users), friend_email \in InviteEmails :
        LET existing == ExistingReferrals(referrals, referrer_user_id, friend_email)
            r == create_referral(referrals, referrer_user_id, friend_email, today, TRUE)
            args == [referrer_user_id |-> referrer_user_id, referred_email |-> friend_email]
        IN  /\ (friend_email # "" /\ existing = {}) => Len(referrals) < MaxReferrals
            /\ IF friend_email = ""
                   THEN /\ last' = PortalCall("invite", FALSE,
                                              "Please enter an email address", 0, args)
                        /\ UNCHANGED referrals
               ELSE IF existing # {}
                   THEN /\ last' = PortalCall("invite", FALSE,
                                              "You've already referred this email", 0, args)
                        /\ UNCHANGED referrals
               ELSE /\ referrals' = r.referrals
                    /\ last' = PortalCall("invite", r.ok,
                                          IF r.ok THEN "Invitation sent" ELSE r.msg, 0, args)
            /\ UNCHANGED <<today, plans, subs, req, users, notifications, payments,
                           broadcasts>>

\* Invitations sent by the customers, one request at a time, over the days.
NextInvite ==
    \/ Tick
    \/ CreateUser
    \/ Invite

SpecInvite == Init /\ [][NextInvite]_vars

C23_EndIsStartPlusValidity ==
    \A i \in DOMAIN subs :
        subs[i].end_date = subs[i].start_date + plans[subs[i].plan_id].validity_days

\* C23: a row starts on the day of the call that creates it; a row created by
\* subscribe, or by change_plan when the customer has no active subscription
\* ending after that day, ends on its start date plus the validity days of its
\* plan; a row created by change_plan while the active subscription has days
\* left ends when that subscription did; and no call changes the start or end
\* date of a row there is.
C23_PeriodOfNewRow ==
    [][/\ \A i \in DOMAIN subs :
             /\ subs'[i].start_date = subs[i].start_date
             /\ subs'[i].end_date = subs[i].end_date
       /\ Inserted =>
             LET row == subs'[Len(subs')]
                 live == {i \in ActiveOf(subs, row.user_id) : subs[i].end_date > today}
             IN  /\ row.start_date = today
                 /\ IF last'.op = "change_plan" /\ live # {}
                        THEN \A i \in live : row.end_date = subs[i].end_date
                        ELSE row.end_date
                                = row.start_date + plans[row.plan_id].validity_days
      ]_vars

\* A subscribe, a change_plan on a later day whose row lasts less than its
\* plan's validity, and a subscribe whose row lasts the plan's validity.
C23_Witness ==
    /\ last.op = "subscribe" /\ last.ok
    /\ Len(subs) = 3
    /\ subs[2].cancelled_date = NULL /\ subs[1].cancelled_date # NULL
    /\ subs[2].start_date > subs[1].start_date
    /\ subs[2].end_date = subs[1].end_date
    /\ subs[2].end_date < subs[2].start_date + plans[subs[2].plan_id].validity_days
    /\ subs[3].end_date = subs[3].start_date + plans[subs[3].plan_id].validity_days

\* ------------------------------------------------------------------ the ledger as a history
\* What a row is about: its customer, plan and period, and how it was created.
Period(row) ==
    [user_id |-> row.user_id, plan_id |-> row.plan_id,
     start_date |-> row.start_date, end_date |-> row.end_date,
     auto_renew |-> row.auto_renew, created_date |-> row.created_date,
     renewal_count |-> row.renewal_count]

\* C24: no call removes a subscription row or changes the customer, plan,
\* start date or end date of a row there is; a call adds at most one row, and
\* a subscribe or change_plan that returns success adds exactly one, an
\* active row of the customer for the requested plan.
C24_AppendOnly ==
    [][/\ \A i \in DOMAIN subs :
             i \in DOMAIN subs' /\ Period(subs'[i]) = Period(subs[i])
       /\ Len(subs') \in {Len(subs), Len(subs) + 1}
       /\ (last'.op \in {"subscribe", "change_plan"} /\ last'.ok /\ today' = today) =>
             /\ Inserted
             /\ subs'[Len(subs')].user_id = last'.user
             /\ subs'[Len(subs')].plan_id = last'.plan
             /\ subs'[Len(subs')].status = "active"
      ]_vars

\* A change_plan that returned success: the row it read is still there with
\* its plan and dates, cancelled, and the new row follows it.
C24_Witness ==
    /\ last.op = "change_plan" /\ last.ok
    /\ last.current_sub # None
    /\ last.current_sub.id < Len(subs)
    /\ LET old == subs[last.current_sub.id] IN
          /\ old.status = "cancelled"
          /\ old.plan_id = last.current_sub.plan_id
          /\ old.start_date = last.current_sub.start_date
          /\ old.end_date = last.current_sub.end_date
    /\ subs[Len(subs)].status = "active"
    /\ subs[Len(subs)].start_date > last.current_sub.start_date

Clocks ==
    {c \in [Positions -> 0..Cardinality(UsernameInputs)] :
        \A j, k \in Positions : j <= k => c[j] <= c[k]}

SendClock == SendWith([read : {TRUE}, fails : {{}}, clock : Clocks])

\* Sends among sign-ups, every statement executing, the clock running as it
\* may.
NextNotifyClock ==
    \/ CreateUser
    \/ SendClock

SpecNotifyClock == Init /\ [][NextNotifyClock]_vars

\* C26: all the rows created by one send call have the same title, message,
\* type and creation timestamp.
C26_SameTimestamp ==
    [][last'.op = "send_notification" =>
        \A i, j \in Made :
            /\ notifications'[i].title = notifications'[j].title
            /\ notifications'[i].message = notifications'[j].message
            /\ notifications'[i].notification_type = notifications'[j].notification_type
            /\ notifications'[i].created_date = notifications'[j].created_date
      ]_vars

\* ------------------------------------------------------------------ plans archived under the ledger
\* Plans created and soft-deleted while one customer subscribes and switches,
\* over the days.
NextArchive ==
    \/ Tick
    \/ CreatePlanRace
    \/ DeletePlan
    \/ SubscribeCatalog
    \/ ChangePlanCatalog

SpecArchive == Init /\ [][NextArchive]_vars

NextFrame ==
    \/ Tick
    \/ CreatePlanRace
    \/ Subscribe
    \/ ChangePlan

SpecFrame == Init /\ [][NextFrame]_vars

\* The step is a subscribe or change_plan call.
LifecycleCall == last'.op \in {"subscribe", "change_plan"} /\ today' = today

\* C28: a subscribe or change_plan for one customer leaves every subscription
\* row of every other customer as it was, and adds no row for another
\* customer.
C28_OtherCustomersUntouched ==
    [][LifecycleCall =>
        /\ \A i \in DOMAIN subs :
              subs[i].user_id # last'.user =>
                  (i \in DOMAIN subs' /\ subs'[i] = subs[i])
        /\ \A i \in DOMAIN subs' \ DOMAIN subs : subs'[i].user_id = last'.user
      ]_vars

\* A change_plan of one customer that cancelled their row, while the other
\* customer's earlier row is still active and undated.
C28_Witness ==
    /\ last.op = "change_plan" /\ last.ok /\ last.current_sub # None
    /\ subs[last.current_sub.id].status = "cancelled"
    /\ \E i \in DOMAIN subs :
          /\ subs[i].user_id # last.user
          /\ i < last.current_sub.id
          /\ subs[i].status = "active"
          /\ subs[i].cancelled_date = NULL

\* C29: a subscribe or change_plan call creates and changes no payment row:
\* the payments table is as it was, and the amount change_plan computed is in
\* its result only.
C29_NoPaymentWritten ==
    [][LifecycleCall => (payments' = payments /\ payments' = <<>>)]_vars

\* A change_plan that quoted the new plan's full price for a customer whose
\* period had run out, with no payment row made.
C29_Witness ==
    /\ last.op = "change_plan" /\ last.ok
    /\ last.msg = "Current plan expired, full price"
    /\ last.amount > 0
    /\ payments = <<>>

====
